---- MODULE Spec2Model ----
(***************************************************************************)
(* Field binding and aggregate resolution of django-data-browser:          *)
(* data_browser/orm_fields.py and data_browser/orm_aggregates.py.          *)
(*                                                                         *)
(* Python's None is the string "None"; a descriptor, a bound field and a   *)
(* call result are records of one shape each, so that they compare.        *)
(***************************************************************************)
EXTENDS Naturals, Sequences, FiniteSets, TLC

VARIABLES
    engine,   \* settings.DATABASES["default"]["ENGINE"], fixed at process start
    registry, \* the module-level TYPE_AGGREGATES, built when the module is imported
    fields,   \* the field descriptors that exist (the entity wrappers' fields)
    heap,     \* the bound fields constructed so far; a bound field's id is its index
    call,     \* the annotate() call in progress, or Idle
    ret,      \* what the last operation returned or raised
    rows,     \* the values a formatter is being applied to
    out       \* the formatted values produced so far

vars == <<engine, registry, fields, heap, call, ret, rows, out>>

\* ------------------------------------------------------------------ bounds

MaxHeap == 3
MaxFields == 1
MaxRows == 3

\* ------------------------------------------------------- semantic types

None == "None"

\* Python truthiness of a value that is None, a string or a type.
Truthy(v) == v \notin {None, ""}

\* types.TYPES: the semantic types (types.py is not part of the two files).
TYPES ==
    {"StringType", "NumberType", "BooleanType", "DurationType", "DateType",
     "DateTimeType", "HTMLType", "NumberArrayType"}

\* BaseType.name: the type's lower-case name.
TypeName(t) ==
    CASE t = "StringType" -> "string"
      [] t = "NumberType" -> "number"
      [] t = "BooleanType" -> "boolean"
      [] t = "DurationType" -> "duration"
      [] t = "DateType" -> "date"
      [] t = "DateTimeType" -> "datetime"
      [] t = "HTMLType" -> "html"
      [] t = "NumberArrayType" -> "numberarray"
      [] t = "NumberChoiceArrayType" -> "numberchoicearray"

\* ArrayTypeMixin.__subclasses__(): the array types, each with its element type
\* and its raw type (None unless it is a choice array over another array type).
ArrayTypeSubclasses ==
    {[name |-> "NumberArrayType", element_type |-> "NumberType", raw_type |-> None],
     [name |-> "NumberChoiceArrayType", element_type |-> "NumberChoiceType",
      raw_type |-> "NumberArrayType"]}

\* The engines of settings.DATABASES["default"]["ENGINE"] considered.
ENGINES == {"django.db.backends.postgresql", "django.db.backends.sqlite3"}

\* "postgresql" in settings.DATABASES["default"]["ENGINE"]
IsPostgresql(e) == e \in {"django.db.backends.postgresql"}

\* util.s: the path joined by the separator.
RECURSIVE s(_)
s(path) ==
    IF Len(path) = 0 THEN ""
    ELSE IF Len(path) = 1 THEN path[1]
    ELSE path[1] \o "__" \o s(Tail(path))

\* util.annotation_path: the path under the annotation namespace.
annotation_path(path) == s(<<"ddb">> \o path)

\* ---------------------------------------------------------- descriptors

\* OrmBoundField.field of the blank root: no descriptor.
NoField ==
    [cls |-> None, model_name |-> None, name |-> None, pretty_name |-> None,
     type_ |-> None, concrete |-> FALSE, rel_name |-> None, can_pivot |-> FALSE,
     base_type |-> None, agg_func |-> None, func |-> None]

\* The result of a constructor or of bind: the object, or the exception raised.
Raised(e) == [err |-> e, obj |-> NoField]
Made(f) == [err |-> "", obj |-> f]

\* Faulty variant: __post_init__ without its second assertion.
PostInitOk_FirstRuleOnly(f) == (~Truthy(f.type_)) => Truthy(f.rel_name)

\* OrmBaseField.__post_init__: the two construction rules.
PostInitOk(f) ==
    /\ (~Truthy(f.type_)) => Truthy(f.rel_name)
    /\ (f.concrete \/ f.can_pivot) => Truthy(f.type_)

\* OrmBaseField.__init__ (the dataclass's) followed by __post_init__.
OrmBaseField(cls, model_name, name, pretty_name, type_, concrete, rel_name, can_pivot) ==
    LET f == [cls |-> cls, model_name |-> model_name, name |-> name,
              pretty_name |-> pretty_name, type_ |-> type_, concrete |-> concrete,
              rel_name |-> rel_name, can_pivot |-> can_pivot,
              base_type |-> None, agg_func |-> None, func |-> None]
    IN  IF PostInitOk(f) THEN Made(f) ELSE Raised("AssertionError")

OrmFkField(model_name, name, pretty_name, rel_name) ==
    OrmBaseField("OrmFkField", model_name, name, pretty_name, None, FALSE, rel_name, FALSE)

OrmConcreteField(cls, model_name, name, pretty_name, type_, rel_name) ==
    OrmBaseField(cls, model_name, name, pretty_name, type_, TRUE, rel_name, TRUE)

OrmRawField(model_name, name, pretty_name, type_, rel_name) ==
    OrmConcreteField("OrmRawField", model_name, name, pretty_name, type_, rel_name)

\* func is the user function's behaviour; func.boolean picks the type.
OrmCalculatedField(model_name, name, pretty_name, func) ==
    LET type_ == IF func.boolean THEN "BooleanType" ELSE "HTMLType"
        r == OrmBaseField("OrmCalculatedField", model_name, name, pretty_name,
                          type_, FALSE, None, TRUE)
    IN  IF r.err = "" THEN Made([r.obj EXCEPT !.func = func.id]) ELSE r

\* rel_name=type_.name is evaluated before the base constructor runs.
OrmAnnotatedField(model_name, name, pretty_name, type_) ==
    IF type_ = None THEN Raised("AttributeError")
    ELSE OrmBaseField("OrmAnnotatedField", model_name, name, pretty_name,
                      type_, TRUE, TypeName(type_), TRUE)

OrmFileField(model_name, name, pretty_name) ==
    OrmConcreteField("OrmFileField", model_name, name, pretty_name,
                     "HTMLType", TypeName("HTMLType"))

\* name.replace("_", " ") on the aggregate names.
ReplaceUnderscore(name) == IF name = "std_dev" THEN "std dev" ELSE name

OrmAggregateField(base_type, name, agg_func, type_) ==
    IF base_type = None THEN Raised("AttributeError") ELSE
    LET r == OrmBaseField("OrmAggregateField", TypeName(base_type), name,
                          ReplaceUnderscore(name), type_, TRUE, None, FALSE)
    IN  IF r.err = ""
        THEN Made([r.obj EXCEPT !.base_type = base_type, !.agg_func = agg_func])
        ELSE r

\* ---------------------------------------------------- aggregate registry

EmptyDict == [k \in {} |-> <<>>]

\* d[k] = v on a dict.
SetItem(d, k, v) == [x \in (DOMAIN d) \cup {k} |-> IF x = k THEN v ELSE d[x]]

\* TYPE_AGGREGATES[type_][name] = (func, res_type)
Register(reg, type_, name, func, res_type) ==
    [reg EXCEPT ![type_] = SetItem(reg[type_], name, <<func, res_type>>)]

\* Faulty variant: count registered for every type, Boolean included.
RegisterCount_BooleanToo(reg) ==
    [t \in DOMAIN reg |-> SetItem(reg[t], "count", <<"Count_distinct", "NumberType">>)]

\* for type_ in TYPES.values(): if type_ != BooleanType: ... ["count"] = ...
RegisterCount(reg) ==
    [t \in DOMAIN reg |->
        IF t # "BooleanType"
        THEN SetItem(reg[t], "count", <<"Count_distinct", "NumberType">>)
        ELSE reg[t]]

\* for type_ in [DateTimeType, DateType, DurationType, NumberType]: max and min
MaxMinTypes == {"DateTimeType", "DateType", "DurationType", "NumberType"}

RegisterMaxMin(reg) ==
    [t \in DOMAIN reg |->
        IF t \in MaxMinTypes
        THEN SetItem(SetItem(reg[t], "max", <<"Max", t>>), "min", <<"Min", t>>)
        ELSE reg[t]]

\* if "postgresql" in ENGINE: for array_type in ArrayTypeMixin.__subclasses__():
\*     if array_type.raw_type is None: ...[array_type.element_type]["all"] = ...
RegisterAll(reg, e) ==
    LET arrays == {a \in ArrayTypeSubclasses : a.raw_type = None}
        Of(t) == CHOOSE a \in arrays : a.element_type = t
    IN  IF IsPostgresql(e)
        THEN [t \in DOMAIN reg |->
                IF \E a \in arrays : a.element_type = t
                THEN SetItem(reg[t], "all", <<"ArrayAgg_distinct_ordered", Of(t).name>>)
                ELSE reg[t]]
        ELSE reg

\* The module-level construction of TYPE_AGGREGATES, statement by statement.
TYPE_AGGREGATES(e) ==
    LET r0 == [t \in TYPES |-> EmptyDict]
        r1 == RegisterCount(r0)
        r2 == RegisterMaxMin(r1)
        r3 == Register(r2, "NumberType", "average", "Avg", "NumberType")
        r4 == Register(r3, "NumberType", "std_dev", "StdDev", "NumberType")
        r5 == Register(r4, "NumberType", "sum", "Sum", "NumberType")
        r6 == Register(r5, "NumberType", "variance", "Variance", "NumberType")
        r7 == Register(r6, "DurationType", "average", "Avg_CastDuration", "DurationType")
        r8 == Register(r7, "DurationType", "sum", "Sum_CastDuration", "DurationType")
        r9 == Register(r8, "BooleanType", "average", "Avg_CastInteger", "NumberType")
        r10 == Register(r9, "BooleanType", "sum", "Sum_CastInteger", "NumberType")
    IN  RegisterAll(r10, e)

\* get_aggregates_for_type: a fresh aggregate descriptor per registered name.
get_aggregates_for_type(reg_, type_) ==
    LET reg == reg_[type_]
    IN  [name \in DOMAIN reg |->
            OrmAggregateField(type_, name, reg[name][1], reg[name][2]).obj]

\* ---------------------------------------------------------- bound fields

\* The dataclass OrmBoundField (cls tells OrmBoundAnnotatedField apart);
\* previous is the id of the previous bound field, 0 for None.
OrmBoundField(cls, field, previous, full_path, pretty_path, queryset_path, aggregate_clause, filter_, having, model_name) ==
    [cls |-> cls, field |-> field, previous |-> previous, full_path |-> full_path,
     pretty_path |-> pretty_path, queryset_path |-> queryset_path,
     aggregate_clause |-> aggregate_clause, filter_ |-> filter_, having |-> having,
     model_name |-> model_name]

\* OrmBoundField.blank()
blank ==
    OrmBoundField("OrmBoundField", NoField, 0, <<>>, <<>>, <<>>, <<>>, FALSE, FALSE, None)

\* What bind returns: the objects it constructed, the last of them being the
\* bound field returned; or the exception it raised.
Returned(new) == [err |-> "", new |-> new]
Raise(e) == [err |-> e, new |-> <<>>]

\* previous = previous or OrmBoundField.blank(): a bound field is always truthy,
\* so only None is replaced, by a blank root constructed for this call.
PreviousOrBlank(previous, h) ==
    IF previous = 0
    THEN [id |-> Len(h) + 1, new |-> <<blank>>]
    ELSE [id |-> previous, new |-> <<>>]

\* OrmBoundField.__getattr__ for type_: delegated to the descriptor; the blank
\* root has none.
HasField(b) == b.field # NoField

\* Faulty variant: a foreign key that refuses a previous of another entity.
OrmFkField_bind_ChecksEntity(self, previous, h) ==
    LET p == PreviousOrBlank(previous, h)
        prev == (h \o p.new)[p.id]
    IN  IF prev.field # NoField /\ prev.field.rel_name # self.model_name
        THEN Raise("AssertionError")
        ELSE Returned(p.new \o <<OrmBoundField("OrmBoundField", self, p.id,
                prev.full_path \o <<self.name>>,
                prev.pretty_path \o <<self.pretty_name>>,
                prev.queryset_path \o <<self.name>>,
                <<>>, FALSE, FALSE, None)>>)

OrmFkField_bind(self, previous, h) ==
    LET p == PreviousOrBlank(previous, h)
        prev == (h \o p.new)[p.id]
    IN  Returned(p.new \o <<OrmBoundField("OrmBoundField", self, p.id,
            prev.full_path \o <<self.name>>,
            prev.pretty_path \o <<self.pretty_name>>,
            prev.queryset_path \o <<self.name>>,
            <<>>, FALSE, FALSE, None)>>)

\* Faulty variant: the name appended to pretty_path as well.
OrmConcreteField_bind_NameAsPretty(self, previous, h) ==
    LET p == PreviousOrBlank(previous, h)
        prev == (h \o p.new)[p.id]
    IN  Returned(p.new \o <<OrmBoundField("OrmBoundField", self, p.id,
            prev.full_path \o <<self.name>>,
            prev.pretty_path \o <<self.name>>,
            prev.queryset_path \o <<self.name>>,
            <<>>, TRUE, FALSE, None)>>)

\* Inherited by OrmFileField.
OrmConcreteField_bind(self, previous, h) ==
    LET p == PreviousOrBlank(previous, h)
        prev == (h \o p.new)[p.id]
    IN  Returned(p.new \o <<OrmBoundField("OrmBoundField", self, p.id,
            prev.full_path \o <<self.name>>,
            prev.pretty_path \o <<self.pretty_name>>,
            prev.queryset_path \o <<self.name>>,
            <<>>, TRUE, FALSE, None)>>)

\* Faulty variant: a raw field that extends queryset_path as a concrete one does.
OrmRawField_bind_ExtendsPath(self, previous, h) ==
    IF previous = 0 THEN Raise("AttributeError")
    ELSE LET prev == h[previous]
         IN  Returned(<<OrmBoundField("OrmBoundField", self, previous,
                 prev.full_path \o <<self.name>>,
                 prev.pretty_path \o <<self.pretty_name>>,
                 prev.queryset_path \o <<self.name>>,
                 <<>>, TRUE, FALSE, None)>>)

\* No "previous or blank()": None has no full_path.
OrmRawField_bind(self, previous, h) ==
    IF previous = 0 THEN Raise("AttributeError")
    ELSE LET prev == h[previous]
         IN  Returned(<<OrmBoundField("OrmBoundField", self, previous,
                 prev.full_path \o <<self.name>>,
                 prev.pretty_path \o <<self.pretty_name>>,
                 prev.queryset_path,
                 <<>>, TRUE, FALSE, None)>>)

OrmCalculatedField_bind(self, previous, h) ==
    LET p == PreviousOrBlank(previous, h)
        prev == (h \o p.new)[p.id]
    IN  Returned(p.new \o <<OrmBoundField("OrmBoundField", self, p.id,
            prev.full_path \o <<self.name>>,
            prev.pretty_path \o <<self.pretty_name>>,
            prev.queryset_path \o <<"id">>,
            <<>>, FALSE, FALSE, self.model_name)>>)

OrmAnnotatedField_bind(self, previous, h) ==
    LET p == PreviousOrBlank(previous, h)
        prev == (h \o p.new)[p.id]
        full_path == prev.full_path \o <<self.name>>
    IN  Returned(p.new \o <<OrmBoundField("OrmBoundAnnotatedField", self, p.id,
            full_path,
            prev.pretty_path \o <<self.pretty_name>>,
            <<s(<<"ddb">> \o full_path)>>,
            <<>>, TRUE, FALSE, None)>>)

\* Faulty variant: without the assertion on previous.type_.
OrmAggregateField_bind_NoTypeCheck(self, previous, h) ==
    IF previous = 0 THEN Raise("AssertionError")
    ELSE IF ~HasField(h[previous]) THEN Raise("AttributeError")
    ELSE LET prev == h[previous]
             full_path == prev.full_path \o <<self.name>>
         IN  Returned(<<OrmBoundField("OrmBoundField", self, previous,
                 full_path,
                 prev.pretty_path \o <<self.pretty_name>>,
                 <<annotation_path(full_path)>>,
                 <<self.agg_func, s(prev.queryset_path)>>,
                 FALSE, TRUE, None)>>)

\* Faulty variant: the aggregate marked as a plain filter, not as having.
OrmAggregateField_bind_FilterNotHaving(self, previous, h) ==
    IF previous = 0 THEN Raise("AssertionError")
    ELSE IF ~HasField(h[previous]) THEN Raise("AttributeError")
    ELSE IF h[previous].field.type_ # self.base_type THEN Raise("AssertionError")
    ELSE LET prev == h[previous]
             full_path == prev.full_path \o <<self.name>>
         IN  Returned(<<OrmBoundField("OrmBoundField", self, previous,
                 full_path,
                 prev.pretty_path \o <<self.pretty_name>>,
                 <<annotation_path(full_path)>>,
                 <<self.agg_func, s(prev.queryset_path)>>,
                 TRUE, FALSE, None)>>)

\* assert previous; assert previous.type_ == self.base_type
OrmAggregateField_bind(self, previous, h) ==
    IF previous = 0 THEN Raise("AssertionError")
    ELSE IF ~HasField(h[previous]) THEN Raise("AttributeError")
    ELSE IF h[previous].field.type_ # self.base_type THEN Raise("AssertionError")
    ELSE LET prev == h[previous]
             full_path == prev.full_path \o <<self.name>>
         IN  Returned(<<OrmBoundField("OrmBoundField", self, previous,
                 full_path,
                 prev.pretty_path \o <<self.pretty_name>>,
                 <<annotation_path(full_path)>>,
                 <<self.agg_func, s(prev.queryset_path)>>,
                 FALSE, TRUE, None)>>)

\* self.bind(previous), by the class of self.
bind(self, previous, h) ==
    CASE self.cls = "OrmFkField" -> OrmFkField_bind(self, previous, h)
      [] self.cls \in {"OrmConcreteField", "OrmFileField"} ->
            OrmConcreteField_bind(self, previous, h)
      [] self.cls = "OrmRawField" -> OrmRawField_bind(self, previous, h)
      [] self.cls = "OrmCalculatedField" -> OrmCalculatedField_bind(self, previous, h)
      [] self.cls = "OrmAnnotatedField" -> OrmAnnotatedField_bind(self, previous, h)
      [] self.cls = "OrmAggregateField" -> OrmAggregateField_bind(self, previous, h)

\* Faulty variant: the lineage leaf first.
RECURSIVE _lineage_LeafFirst(_, _)
_lineage_LeafFirst(id, h) ==
    IF h[id].previous # 0
    THEN <<id>> \o _lineage_LeafFirst(h[id].previous, h)
    ELSE <<id>>

\* OrmBoundField._lineage: the chain from its oldest ancestor to the bound field.
RECURSIVE _lineage(_, _)
_lineage(id, h) ==
    IF h[id].previous # 0
    THEN _lineage(h[id].previous, h) \o <<id>>
    ELSE <<id>>

\* OrmBoundField._annotate and OrmBoundAnnotatedField._annotate: the queryset
\* with the annotations made on it, each a named correlated subquery.
_annotate(id, h, qs) ==
    IF h[id].cls = "OrmBoundAnnotatedField"
    THEN qs \o <<[name |-> s(h[id].queryset_path),
                  values |-> h[id].field.name,
                  outer_ref |-> s(h[h[id].previous].queryset_path \o <<"id">>)]>>
    ELSE qs

\* --------------------------------------------------------------- results

NoArgs == [variant |-> None, type_ |-> None, rel_name |-> None]

\* The last operation: what it was called with and what it returned (out, the
\* id of a bound field; field, a descriptor) or raised (err).
NoRet == [op |-> "none", args |-> NoArgs, field |-> NoField, previous |-> 0, out |-> 0, err |-> ""]

Idle == [pc |-> "idle", leaf |-> 0, lineage |-> <<>>, idx |-> 0, qs0 |-> <<>>, qs |-> <<>>, visited |-> <<>>]

\* ------------------------------------------------- the entities' fields

\* The descriptors built at process start for two entities, Order and Customer:
\* each is what its constructor returned.
Customer_fk == OrmFkField("app.Order", "customer", "the customer", "app.Customer").obj
Total_concrete == OrmConcreteField("OrmConcreteField", "app.Order", "total", "order total", "NumberType", "number").obj
Elapsed_concrete == OrmConcreteField("OrmConcreteField", "app.Order", "elapsed", "time taken", "DurationType", "duration").obj
Country_concrete == OrmConcreteField("OrmConcreteField", "app.Customer", "country", "home country", "StringType", "string").obj
Pk_raw == OrmRawField("app.Order", "pk", "primary key", "NumberType", "number").obj
IsBig_calculated == OrmCalculatedField("app.Order", "is_big", "is it big", [boolean |-> TRUE, id |-> "is_big"]).obj
Rank_annotated == OrmAnnotatedField("app.Customer", "rank", "customer rank", "NumberType").obj
Invoice_file == OrmFileField("app.Order", "invoice", "invoice file").obj

\* The fields chains are bound from: one of every variant.
Catalog ==
    {Customer_fk, Total_concrete, Country_concrete, Pk_raw, IsBig_calculated,
     Rank_annotated, Invoice_file}

\* The fields aggregates are bound onto: one of every variant, of five types.
AggregateCatalog ==
    {Customer_fk, Total_concrete, Elapsed_concrete, Pk_raw, IsBig_calculated,
     Rank_annotated, Invoice_file}

\* The querysets annotate() is called with: a plain one, and one that already
\* carries an annotation.
QuerySets ==
    {<<>>, <<[name |-> "ddb__other", values |-> "other", outer_ref |-> "id"]>>}

\* ---------------------------------------------------------------- actions

Init ==
    /\ engine \in ENGINES
    /\ registry = TYPE_AGGREGATES(engine)
    /\ fields = Catalog
    /\ heap = <<>>
    /\ call = Idle
    /\ ret = NoRet
    /\ rows = <<>>
    /\ out = <<>>

\* OrmBoundField.blank() called by a caller that starts a chain itself.
Blank ==
    /\ call.pc = "idle"
    /\ Len(heap) < MaxHeap
    /\ heap' = Append(heap, blank)
    /\ ret' = [NoRet EXCEPT !.op = "blank", !.out = Len(heap) + 1]
    /\ UNCHANGED <<engine, registry, fields, call, rows, out>>

\* Faulty variant: a bind that appends to the paths of previous in place.
DoBind_MutatesPrevious(d, previous) ==
    LET r == bind(d, previous, heap)
        touched == IF previous # 0 /\ r.err = ""
                   THEN [heap EXCEPT ![previous].full_path = @ \o <<d.name>>]
                   ELSE heap
    IN  /\ call.pc = "idle"
        /\ Len(heap) + Len(r.new) <= MaxHeap
        /\ heap' = touched \o r.new
        /\ ret' = [NoRet EXCEPT !.op = "bind", !.previous = previous, !.err = r.err,
                                !.out = IF r.err = "" THEN Len(heap) + Len(r.new) ELSE 0]
        /\ UNCHANGED <<engine, registry, fields, call, rows, out>>

\* d.bind(previous) and what it leaves: the new objects on the heap and the result.
DoBind(d, previous) ==
    LET r == bind(d, previous, heap)
    IN  /\ call.pc = "idle"
        /\ Len(heap) + Len(r.new) <= MaxHeap
        /\ heap' = heap \o r.new
        /\ ret' = [NoRet EXCEPT !.op = "bind", !.previous = previous, !.err = r.err,
                                !.out = IF r.err = "" THEN Len(heap) + Len(r.new) ELSE 0]
        /\ UNCHANGED <<engine, registry, fields, call, rows, out>>

\* A field of an entity bound onto None or onto a bound field.
BindField ==
    \E d \in fields, previous \in 0..Len(heap) : DoBind(d, previous)

\* The types aggregates are asked for: those of the entities' fields and of the
\* aggregates' results, and String, which no bound field here has.
AggregatedTypes ==
    {"NumberType", "DurationType", "BooleanType", "HTMLType", "NumberArrayType",
     "StringType"}

\* An aggregate of get_aggregates_for_type(type_) bound onto None or a bound field.
BindAggregate ==
    \E type_ \in AggregatedTypes :
        LET aggregates == get_aggregates_for_type(registry, type_)
        IN  \E name \in DOMAIN aggregates, previous \in 0..Len(heap) :
                DoBind(aggregates[name], previous)

\* leaf.annotate(request, qs) entered: the lineage is computed, the loop starts.
AnnotateStart ==
    \E leaf \in 1..Len(heap), qs \in QuerySets :
        /\ call.pc = "idle"
        /\ call' = [pc |-> "loop", leaf |-> leaf, lineage |-> _lineage(leaf, heap),
                    idx |-> 1, qs0 |-> qs, qs |-> qs, visited |-> <<>>]
        /\ ret' = NoRet
        /\ UNCHANGED <<engine, registry, fields, heap, rows, out>>

\* One iteration of the loop: qs = field._annotate(request, qs); after the last
\* one annotate returns qs.
AnnotateStep ==
    /\ call.pc = "loop"
    /\ LET id == call.lineage[call.idx]
       IN  call' = [call EXCEPT !.qs = _annotate(id, heap, call.qs),
                                !.visited = Append(call.visited, id),
                                !.idx = call.idx + 1,
                                !.pc = IF call.idx = Len(call.lineage)
                                       THEN "done" ELSE "loop"]
    /\ UNCHANGED <<engine, registry, fields, heap, ret, rows, out>>

\* The caller takes the annotated queryset; the call is over.
AnnotateReturn ==
    /\ call.pc = "done"
    /\ call' = Idle
    /\ UNCHANGED <<engine, registry, fields, heap, ret, rows, out>>

Next == Blank \/ BindField \/ AnnotateStart \/ AnnotateStep \/ AnnotateReturn

Spec == Init /\ [][Next]_vars

\* Aggregation: fields of several types, and the aggregates bound onto them.
InitAggregate ==
    /\ engine \in ENGINES
    /\ registry = TYPE_AGGREGATES(engine)
    /\ fields = AggregateCatalog
    /\ heap = <<>>
    /\ call = Idle
    /\ ret = NoRet
    /\ rows = <<>>
    /\ out = <<>>

NextAggregate == BindField \/ BindAggregate

SpecAggregate == InitAggregate /\ [][NextAggregate]_vars

\* ----------------------------------------------------------- construction

\* The values the constructors are called with.
TypeInputs == {None, "NumberType"}
RelNameInputs == {None, "", "app.Customer"}
BaseTypeInputs == {"NumberType", "BooleanType"}

InitConstruct ==
    /\ engine \in ENGINES
    /\ registry = TYPE_AGGREGATES(engine)
    /\ fields = {}
    /\ heap = <<>>
    /\ call = Idle
    /\ ret = NoRet
    /\ rows = <<>>
    /\ out = <<>>

\* A constructor call: the descriptor exists only when the constructor returned.
DoConstruct(variant, type_, rel_name, r) ==
    /\ r.err = "" => (r.obj \in fields \/ Cardinality(fields) < MaxFields)
    /\ fields' = IF r.err = "" THEN fields \cup {r.obj} ELSE fields
    /\ ret' = [NoRet EXCEPT !.op = "construct", !.field = r.obj, !.err = r.err,
                            !.args = [variant |-> variant, type_ |-> type_,
                                      rel_name |-> rel_name]]
    /\ UNCHANGED <<engine, registry, heap, call, rows, out>>

\* The constructors run between the calls on bound fields, never inside one.
ConstructFk ==
    \E rel_name \in RelNameInputs :
        /\ call.pc = "idle"
        /\ DoConstruct("OrmFkField", None, rel_name,
                       OrmFkField("app.Order", "customer", "the customer", rel_name))

ConstructConcrete ==
    \E type_ \in TypeInputs, rel_name \in RelNameInputs :
        /\ call.pc = "idle"
        /\ DoConstruct("OrmConcreteField", type_, rel_name,
                       OrmConcreteField("OrmConcreteField", "app.Order", "total",
                                        "order total", type_, rel_name))

ConstructRaw ==
    \E type_ \in TypeInputs, rel_name \in RelNameInputs :
        /\ call.pc = "idle"
        /\ DoConstruct("OrmRawField", type_, rel_name,
                       OrmRawField("app.Order", "pk", "primary key", type_, rel_name))

ConstructCalculated ==
    \E boolean \in BOOLEAN :
        /\ call.pc = "idle"
        /\ DoConstruct("OrmCalculatedField",
                       IF boolean THEN "BooleanType" ELSE "HTMLType", None,
                       OrmCalculatedField("app.Order", "is_big", "is it big",
                                          [boolean |-> boolean, id |-> "is_big"]))

ConstructAnnotated ==
    \E type_ \in TypeInputs :
        /\ call.pc = "idle"
        /\ DoConstruct("OrmAnnotatedField", type_,
                       IF type_ = None THEN None ELSE TypeName(type_),
                       OrmAnnotatedField("app.Customer", "rank", "customer rank", type_))

ConstructFile ==
    /\ call.pc = "idle"
    /\ DoConstruct("OrmFileField", "HTMLType", TypeName("HTMLType"),
                   OrmFileField("app.Order", "invoice", "invoice file"))

ConstructAggregate ==
    \E base_type \in BaseTypeInputs, type_ \in TypeInputs :
        /\ call.pc = "idle"
        /\ DoConstruct("OrmAggregateField", type_, None,
                       OrmAggregateField(base_type, "std_dev", "StdDev", type_))

NextConstruct ==
    \/ ConstructFk \/ ConstructConcrete \/ ConstructRaw \/ ConstructCalculated
    \/ ConstructAnnotated \/ ConstructFile \/ ConstructAggregate \/ BindField

SpecConstruct == InitConstruct /\ [][NextConstruct]_vars

\* -------------------------------------------------------------- formatters

\* What a call into user or storage code does: it returns a value, or raises an
\* exception (a subclass of Exception) whose str() is given.
Outcomes ==
    {[kind |-> "return", value |-> "yes", exc |-> None, str |-> None],
     [kind |-> "raise", value |-> None, exc |-> "ValueError", str |-> "bad value"],
     [kind |-> "raise", value |-> None, exc |-> "ImproperlyConfigured", str |-> "no bucket"]}

\* The classes "except Exception" catches among those raised.
ExceptionSubclasses == {"ValueError", "ImproperlyConfigured"}

\* The row objects a calculated field's formatter is given, and the stored
\* values a file field's formatter is given.
RowObjects == {None, "order-1", "order-2"}
FileValues == {None, "", "invoice.pdf"}

\* What format(value) did: the value returned or the class of the exception
\* that left it, and whether the user function or the storage was called.
FormatReturned(value, called) == [err |-> "", value |-> value, called |-> called]
FormatRaised(exc) == [err |-> exc, value |-> <<>>, called |-> TRUE]

\* BaseType.get_formatter(choices): the type's own formatter, applied to value.
base_formatter(type_, value) == <<"formatted", type_, value>>

\* django.utils.html.format_html('<a href="{}">{}</a>', url, value)
format_html(url, value) == <<"a", url, value>>

\* Faulty variant: the user function called outside any try.
OrmCalculatedField_format_NoTry(self, obj, outcome) ==
    IF obj = None THEN FormatReturned(<<None>>, FALSE)
    ELSE IF outcome.kind = "raise" THEN FormatRaised(outcome.exc)
    ELSE FormatReturned(base_formatter(self.type_, outcome.value), TRUE)

\* The closure OrmCalculatedField.get_formatter returns, applied to obj;
\* outcome is what self.func(obj) does.
OrmCalculatedField_format(self, obj, outcome) ==
    IF obj = None THEN FormatReturned(<<None>>, FALSE)
    ELSE IF outcome.kind = "raise"
         THEN IF outcome.exc \in ExceptionSubclasses
              THEN FormatReturned(<<"str", outcome.str>>, TRUE)
              ELSE FormatRaised(outcome.exc)
         ELSE FormatReturned(base_formatter(self.type_, outcome.value), TRUE)

\* The closure OrmFileField.get_formatter returns, applied to value; outcome
\* is what self.django_field.storage.url(value) does.
OrmFileField_format(self, value, outcome) ==
    IF ~Truthy(value) THEN FormatReturned(<<None>>, FALSE)
    ELSE IF outcome.kind = "raise"
         THEN IF outcome.exc \in ExceptionSubclasses
              THEN FormatReturned(<<"str", outcome.str>>, TRUE)
              ELSE FormatRaised(outcome.exc)
         ELSE FormatReturned(format_html(outcome.value, value), TRUE)

InitFormat ==
    /\ engine \in ENGINES
    /\ registry = TYPE_AGGREGATES(engine)
    /\ fields = {IsBig_calculated, Invoice_file}
    /\ heap = <<>>
    /\ call = Idle
    /\ ret = NoRet
    /\ rows = <<>>
    /\ out = <<>>

\* The next value of a result set is formatted: the value and what happened are
\* recorded; an exception leaving the formatter ends the formatting.
DoFormat(d, value, outcome, r) ==
    /\ ret.err = ""
    /\ Len(rows) < MaxRows
    /\ rows' = Append(rows, [field |-> d, value |-> value, outcome |-> outcome])
    /\ out' = IF r.err = "" THEN Append(out, r) ELSE out
    /\ ret' = [NoRet EXCEPT !.op = "format", !.field = d, !.err = r.err]
    /\ UNCHANGED <<engine, registry, fields, heap, call>>

FormatCalculated ==
    \E d \in fields, obj \in RowObjects, outcome \in Outcomes :
        /\ d.cls = "OrmCalculatedField"
        /\ DoFormat(d, obj, outcome, OrmCalculatedField_format(d, obj, outcome))

FormatFile ==
    \E d \in fields, value \in FileValues, outcome \in Outcomes :
        /\ d.cls = "OrmFileField"
        /\ DoFormat(d, value, outcome, OrmFileField_format(d, value, outcome))

NextFormat == FormatCalculated \/ FormatFile

SpecFormat == InitFormat /\ [][NextFormat]_vars

\* ------------------------------------------------------------ properties

\* The bound fields of the chain that ends at id, first hop first, found by
\* following the previous links; the root the chain hangs from is left out.
RECURSIVE Hops(_)
Hops(id) ==
    IF heap[id].previous = 0 THEN <<>> ELSE Append(Hops(heap[id].previous), id)

\* The previous bound field of a bound field that has one.
Prev(b) == heap[b.previous]

IsBlank(b) ==
    /\ b.field = NoField /\ b.previous = 0
    /\ b.full_path = <<>> /\ b.pretty_path = <<>> /\ b.queryset_path = <<>>

\* C1: in every chain, full_path and pretty_path are as long as the chain has
\* bind hops, full_path[i] is the name of the i-th descriptor bound and
\* pretty_path[i] its pretty_name.
C1_PathsFollowTheChain ==
    \A id \in 1..Len(heap) :
        LET hops == Hops(id)
            b == heap[id]
        IN  /\ Len(b.full_path) = Len(hops)
            /\ Len(b.pretty_path) = Len(hops)
            /\ \A i \in 1..Len(hops) :
                  /\ b.full_path[i] = heap[hops[i]].field.name
                  /\ b.pretty_path[i] = heap[hops[i]].field.pretty_name

\* A chain of two hops, bound from a missing previous, that ends in an
\* aggregate.
C1_Witness ==
    /\ \E id \in 1..Len(heap) :
          /\ Len(Hops(id)) = 2
          /\ heap[id].field.cls = "OrmAggregateField"
          /\ heap[id].full_path = <<"total", "sum">>
          /\ heap[id].pretty_path = <<"order total", "sum">>
    /\ ret.op = "bind" /\ ret.err = ""

\* The variant table of bind: the queryset_path and filter_ a descriptor of
\* class cls and name name gives on a previous bound field p, the new
\* full_path being full_path.
TableQuerysetPath(cls, name, p, full_path) ==
    CASE cls \in {"OrmFkField", "OrmConcreteField", "OrmFileField"} ->
            p.queryset_path \o <<name>>
      [] cls = "OrmRawField" -> p.queryset_path
      [] cls = "OrmCalculatedField" -> p.queryset_path \o <<"id">>
      [] cls = "OrmAnnotatedField" -> <<s(<<"ddb">> \o full_path)>>

TableFilter(cls) ==
    cls \in {"OrmConcreteField", "OrmFileField", "OrmRawField", "OrmAnnotatedField"}

\* C2: every bound field made from a foreign-key, concrete, file, raw,
\* calculated or annotated descriptor has the queryset_path and filter_ of the
\* variant table over its previous bound field, and having false; a bind with a
\* missing previous that returned did so on a blank root made for it; a
\* concrete field on a blank root has queryset_path [name] and filter_ true.
C2_BindFollowsTheVariantTable ==
    /\ \A id \in 1..Len(heap) :
          LET b == heap[id]
          IN  b.field # NoField =>
                /\ b.previous \in 1..(id - 1)
                /\ b.queryset_path =
                      TableQuerysetPath(b.field.cls, b.field.name, Prev(b), b.full_path)
                /\ b.filter_ = TableFilter(b.field.cls)
                /\ b.having = FALSE
                /\ (b.field.cls = "OrmConcreteField" /\ IsBlank(Prev(b))) =>
                      /\ b.queryset_path = <<b.field.name>>
                      /\ b.filter_ = TRUE
    /\ (ret.op = "bind" /\ ret.previous = 0 /\ ret.err = "") =>
          /\ ret.out = Len(heap)
          /\ heap[ret.out].previous = ret.out - 1
          /\ heap[ret.out - 1] = blank
          /\ heap[ret.out].field.cls # "OrmRawField"
    /\ (ret.op = "bind" /\ ret.previous # 0 /\ ret.err = "") =>
          /\ ret.out = Len(heap)
          /\ heap[ret.out].previous = ret.previous

\* One bound field of every variant exists: the annotated one under a hop, the
\* raw one on a concrete field, and the last bind was given no previous.
C2_Witness ==
    /\ \E id \in 1..Len(heap) :
          /\ heap[id].field.cls = "OrmAnnotatedField"
          /\ heap[id].queryset_path = <<"ddb__customer__rank">>
          /\ heap[id].filter_
          /\ heap[heap[id].previous].field.cls = "OrmFkField"
          /\ heap[heap[id].previous].queryset_path = <<"customer">>
          /\ ~heap[heap[id].previous].filter_
    /\ ret.op = "bind" /\ ret.err = ""

C2_WitnessRaw ==
    \E id \in 1..Len(heap) :
        /\ heap[id].field.cls = "OrmRawField"
        /\ heap[id].queryset_path = <<"total">>
        /\ heap[id].full_path = <<"total", "pk">>

C2_WitnessMissingPrevious ==
    /\ ret.op = "bind" /\ ret.previous = 0 /\ ret.err = ""
    /\ heap[ret.out].field.cls = "OrmConcreteField"
    /\ heap[ret.out].queryset_path = <<"total">>
    /\ heap[ret.out].filter_ /\ ~heap[ret.out].having

\* C3: in every state, binding any aggregate of the registry onto a bound field
\* whose descriptor's type_ is not the aggregate's base_type (a hop without a
\* type included) raises AssertionError and constructs nothing, as does binding
\* it onto a missing previous; on a blank root, which has no descriptor to ask
\* for type_, it raises AttributeError; no failed bind returns a bound field.
C3_MismatchedAggregateBindFails ==
    /\ \A type_ \in TYPES :
          LET aggregates == get_aggregates_for_type(registry, type_)
          IN  \A name \in DOMAIN aggregates, previous \in 0..Len(heap) :
                LET r == bind(aggregates[name], previous, heap)
                IN  /\ previous = 0 => (r.err = "AssertionError" /\ r.new = <<>>)
                    /\ (previous # 0 /\ heap[previous].field # NoField
                          /\ heap[previous].field.type_ # type_) =>
                          (r.err = "AssertionError" /\ r.new = <<>>)
                    /\ (previous # 0 /\ heap[previous].field = NoField) =>
                          (r.err = "AttributeError" /\ r.new = <<>>)
    /\ (ret.op = "bind" /\ ret.err # "") => ret.out = 0
    /\ (ret.op = "bind" /\ ret.err = "") => ret.out = Len(heap)

\* An aggregate bind onto a Number field has just failed on a type mismatch,
\* with a foreign-key hop also on the heap.
C3_Witness ==
    /\ ret.op = "bind" /\ ret.err = "AssertionError" /\ ret.out = 0
    /\ ret.previous # 0
    /\ heap[ret.previous].field.type_ = "NumberType"
    /\ \E id \in 1..Len(heap) : heap[id].field.cls = "OrmFkField"

\* The names get_aggregates_for_type(type_) returns.
AggregateNames(type_) == DOMAIN get_aggregates_for_type(registry, type_)

\* C4: the aggregates of Number are count, max, min, average, std_dev, sum and
\* variance, and "all" exactly on a postgresql engine; those of Boolean are
\* average and sum; every type but Boolean has count; max and min belong to
\* DateTime, Date, Duration and Number only.
C4_AggregateNamesPerType ==
    /\ AggregateNames("NumberType") =
          {"count", "max", "min", "average", "std_dev", "sum", "variance"}
             \cup (IF engine = "django.db.backends.postgresql" THEN {"all"} ELSE {})
    /\ AggregateNames("BooleanType") = {"average", "sum"}
    /\ \A type_ \in TYPES \ {"BooleanType"} : "count" \in AggregateNames(type_)
    /\ \A type_ \in TYPES :
          /\ "max" \in AggregateNames(type_) <=>
                type_ \in {"DateTimeType", "DateType", "DurationType", "NumberType"}
          /\ "min" \in AggregateNames(type_) <=>
                type_ \in {"DateTimeType", "DateType", "DurationType", "NumberType"}

\* On postgresql the "all" aggregate of Number was got and bound.
C4_Witness ==
    /\ engine = "django.db.backends.postgresql"
    /\ \E id \in 1..Len(heap) :
          /\ heap[id].field.cls = "OrmAggregateField"
          /\ heap[id].field.name = "all"
          /\ heap[id].field.base_type = "NumberType"

\* The result type the registry is to give aggregate name of type_.
TableResultType(type_, name) ==
    CASE name = "count" -> "NumberType"
      [] name \in {"max", "min"} -> type_
      [] name = "all" -> "NumberArrayType"
      [] type_ = "DurationType" -> "DurationType"
      [] OTHER -> "NumberType"

\* C5: every bound field made from an aggregate descriptor sits on a previous
\* bound field of the aggregate's base type, has having true and filter_ false,
\* a queryset_path of one identifier, the annotation path of its full_path
\* (not previous.queryset_path extended), and as type_ the result type of the
\* registry; its descriptor is the one get_aggregates_for_type gives.
C5_AggregateBindResult ==
    \A id \in 1..Len(heap) :
        LET b == heap[id]
        IN  b.field.cls = "OrmAggregateField" =>
              /\ b.previous # 0
              /\ Prev(b).field.type_ = b.field.base_type
              /\ b.field.name \in AggregateNames(b.field.base_type)
              /\ b.field = get_aggregates_for_type(registry, b.field.base_type)[b.field.name]
              /\ b.having = TRUE
              /\ b.filter_ = FALSE
              /\ Len(b.queryset_path) = 1
              /\ b.queryset_path = <<annotation_path(b.full_path)>>
              /\ b.queryset_path # Prev(b).queryset_path \o <<b.field.name>>
              /\ b.field.type_ = TableResultType(b.field.base_type, b.field.name)

\* sum bound onto total, just now.
C5_Witness ==
    /\ ret.op = "bind" /\ ret.err = "" /\ ret.out # 0
    /\ heap[ret.out].field.cls = "OrmAggregateField"
    /\ heap[ret.out].full_path = <<"total", "sum">>
    /\ heap[ret.out].queryset_path = <<"ddb__total__sum">>
    /\ heap[ret.out].having /\ ~heap[ret.out].filter_
    /\ heap[ret.out].field.type_ = "NumberType"
    /\ Prev(heap[ret.out]).queryset_path = <<"total">>

\* The descriptor belongs to the entity the previous bound field reaches: the
\* entity a hop or a field leads to is its descriptor's rel_name; a blank root
\* stands for whichever entity the chain starts at.
Compatible(d, p) == p.field = NoField \/ d.model_name = p.field.rel_name

\* C6 as claimed: no bound field was returned by a bind onto an incompatible
\* previous, every such bind having failed.
C6_IncompatibleBindFails ==
    \A id \in 1..Len(heap) :
        heap[id].field # NoField => Compatible(heap[id].field, Prev(heap[id]))

\* C6 amended: bind does not look at the entity of previous. A foreign-key,
\* concrete, raw, file, calculated or annotated descriptor bound onto any bound
\* field, compatible or not, returns a new bound field on it, and fails only
\* when it is a raw descriptor and previous is missing; an aggregate descriptor
\* fails exactly when previous is missing, is a blank root or has another
\* type_ than its base_type, whatever the entities.
C6_BindIgnoresTheEntity ==
    /\ \A d \in fields, previous \in 0..Len(heap) :
          LET r == bind(d, previous, heap)
          IN  /\ previous # 0 =>
                    /\ r.err = ""
                    /\ Len(r.new) = 1
                    /\ r.new[1].field = d
                    /\ r.new[1].previous = previous
              /\ r.err # "" <=> (d.cls = "OrmRawField" /\ previous = 0)
    /\ \A type_ \in TYPES :
          LET aggregates == get_aggregates_for_type(registry, type_)
          IN  \A name \in DOMAIN aggregates, previous \in 0..Len(heap) :
                LET r == bind(aggregates[name], previous, heap)
                IN  r.err # "" <=>
                       \/ previous = 0
                       \/ heap[previous].field = NoField
                       \/ heap[previous].field.type_ # type_

\* The last bind returned a bound field of an Order field on a hop that reaches
\* Customer.
C6_Witness ==
    /\ ret.op = "bind" /\ ret.err = "" /\ ret.out # 0
    /\ heap[ret.out].field.model_name = "app.Order"
    /\ Prev(heap[ret.out]).field.cls = "OrmFkField"
    /\ Prev(heap[ret.out]).field.rel_name = "app.Customer"
    /\ ~Compatible(heap[ret.out].field, Prev(heap[ret.out]))

\* The two construction rules, on a descriptor.
Rules(f) ==
    /\ f.type_ = None => f.rel_name \notin {None, ""}
    /\ (f.concrete \/ f.can_pivot) => f.type_ # None

\* A constructor call that breaks a rule: the variants other than the foreign
\* key mark their descriptor concrete or pivotable.
BreaksARule(args) ==
    \/ args.type_ = None /\ args.rel_name \in {None, ""}
    \/ args.variant # "OrmFkField" /\ args.type_ = None

\* C8: every descriptor that exists, every descriptor of a bound field and
\* every aggregate descriptor of the registry satisfies both rules; a
\* constructor call that breaks a rule raises and gives no descriptor, and one
\* that returns gives a descriptor with the type and related name asked for.
C8_ConstructionRules ==
    /\ \A f \in fields : Rules(f)
    /\ \A id \in 1..Len(heap) : heap[id].field # NoField => Rules(heap[id].field)
    /\ \A type_ \in TYPES : \A name \in AggregateNames(type_) :
          Rules(get_aggregates_for_type(registry, type_)[name])
    /\ ret.op = "construct" =>
          /\ BreaksARule(ret.args) => ret.err # ""
          /\ ret.err # "" => (ret.field = NoField /\ ret.field \notin fields)
          /\ ret.err = "" =>
                /\ ret.field \in fields
                /\ ret.field.cls = ret.args.variant
                /\ ret.field.type_ = ret.args.type_
                /\ ret.field.rel_name = ret.args.rel_name

\* A concrete field without a type was refused, with a descriptor made before
\* it bound into a chain.
C8_Witness ==
    /\ ret.op = "construct" /\ ret.err = "AssertionError"
    /\ ret.args.variant = "OrmConcreteField"
    /\ ret.args.type_ = None /\ ret.args.rel_name = "app.Customer"
    /\ fields # {}
    /\ Len(heap) >= 2

\* What a value of a result set is to be formatted as: absent without a call
\* when the row or the stored value is empty, the exception's string when the
\* call raised, and the type's formatting or the link otherwise.
TableFormatted(row) ==
    IF row.value \in {None, ""} THEN [err |-> "", value |-> <<None>>, called |-> FALSE]
    ELSE IF row.outcome.kind = "raise"
         THEN [err |-> "", value |-> <<"str", row.outcome.str>>, called |-> TRUE]
         ELSE IF row.field.cls = "OrmCalculatedField"
              THEN [err |-> "", called |-> TRUE,
                    value |-> <<"formatted", row.field.type_, row.outcome.value>>]
              ELSE [err |-> "", called |-> TRUE,
                    value |-> <<"a", row.outcome.value, row.value>>]

\* C7: no exception leaves a formatter, so every value given has its formatted
\* value, and each is what its own row alone determines: the exception's
\* string where the user function or the storage raised, absent without any
\* call for an empty value, the regular formatting elsewhere.
C7_RowFailureIsLocal ==
    /\ ret.err = ""
    /\ Len(out) = Len(rows)
    /\ \A i \in 1..Len(rows) : out[i] = TableFormatted(rows[i])

\* Three rows, the middle one raising in the user function, the last one in the
\* storage, the first formatted regularly.
C7_Witness ==
    /\ Len(rows) = 3 /\ Len(out) = 3
    /\ rows[1].field.cls = "OrmCalculatedField" /\ rows[1].outcome.kind = "return"
    /\ rows[1].value = "order-1"
    /\ out[1].value = <<"formatted", "BooleanType", "yes">>
    /\ rows[2].field.cls = "OrmCalculatedField" /\ rows[2].outcome.kind = "raise"
    /\ rows[2].value = "order-2"
    /\ out[2].value = <<"str", "bad value">>
    /\ rows[3].field.cls = "OrmFileField" /\ rows[3].outcome.kind = "raise"
    /\ rows[3].value = "invoice.pdf"
    /\ out[3].value = <<"str", "no bucket">>

\* The chain that ends at id, its root included, oldest ancestor first.
Chain(id) ==
    LET hops == Hops(id)
    IN  IF hops = <<>> THEN <<id>> ELSE <<heap[hops[1]].previous>> \o hops

\* The names of the columns the annotated-field links among ids are to add,
\* in the order of ids.
RECURSIVE ColumnsOf(_)
ColumnsOf(ids) ==
    IF ids = <<>> THEN <<>>
    ELSE LET b == heap[ids[Len(ids)]]
             before == ColumnsOf(SubSeq(ids, 1, Len(ids) - 1))
         IN  IF b.field.cls = "OrmAnnotatedField"
             THEN Append(before, b.queryset_path[1])
             ELSE before

ColumnNames(qs) == [i \in 1..Len(qs) |-> qs[i].name]

\* C9: while annotate runs, the links visited are the first links of the chain
\* in root-to-leaf order, and the queryset is the one given with one column
\* added per annotated-field link visited, named by that link's
\* queryset_path, in chain order; when annotate is done every link has been
\* visited exactly once.
C9_AnnotateWalksRootToLeaf ==
    call.pc \in {"loop", "done"} =>
        LET chain == Chain(call.leaf)
            n == Len(call.visited)
        IN  /\ n <= Len(chain)
            /\ call.visited = SubSeq(chain, 1, n)
            /\ call.pc = "done" <=> n = Len(chain)
            /\ SubSeq(call.qs, 1, Len(call.qs0)) = call.qs0
            /\ ColumnNames(call.qs) = ColumnNames(call.qs0) \o ColumnsOf(call.visited)
            /\ call.pc = "done" =>
                  Len(call.qs) = Len(call.qs0) +
                      Cardinality({i \in 1..Len(chain) :
                                     heap[chain[i]].cls = "OrmBoundAnnotatedField"})

\* annotate is done on the chain root, customer, rank, on a queryset that
\* carried an annotation: one column was added.
C9_Witness ==
    /\ call.pc = "done"
    /\ Len(call.visited) = 3
    /\ heap[call.visited[1]].field = NoField
    /\ heap[call.visited[2]].field.cls = "OrmFkField"
    /\ heap[call.visited[3]].field.cls = "OrmAnnotatedField"
    /\ call.visited[3] = call.leaf
    /\ ColumnNames(call.qs) = <<"ddb__other", "ddb__customer__rank">>
    /\ call.qs[2].outer_ref = "customer__id"

\* Following previous from id ends, after fewer links than there are bound
\* fields, at a blank root.
EndsAtBlankRoot(h, id) ==
    /\ \A i \in 1..Len(h) : h[i].previous < i
    /\ LET RECURSIVE Root(_)
           Root(j) == IF h[j].previous = 0 THEN j ELSE Root(h[j].previous)
       IN  h[Root(id)] = blank

\* C10: every step leaves every bound field that exists as it is (its field,
\* previous link, paths and flags), a bind only adding bound fields and never
\* touching the queryset of a call, an annotate step changing no bound field
\* at all; and after every step the previous links of every bound field lead
\* to a blank root without a cycle.
C10_BoundFieldsAreImmutable ==
    [][/\ Len(heap') >= Len(heap)
       /\ \A id \in 1..Len(heap) : heap'[id] = heap[id]
       /\ heap' # heap => call' = call
       /\ call' # call => heap' = heap
       /\ \A id \in 1..Len(heap') : EndsAtBlankRoot(heap', id)]_vars

\* Two bound fields extend the same previous, the later one a raw field that
\* shares the previous queryset_path.
C10_Witness ==
    /\ Len(heap) = 3
    /\ heap[2].previous = 1 /\ heap[3].previous = 1
    /\ heap[1] = blank
    /\ heap[2].field.cls = "OrmConcreteField"
    /\ heap[3].field.cls = "OrmRawField"
    /\ heap[3].queryset_path = heap[1].queryset_path
    /\ ret.op = "bind" /\ ret.out = 3

====
